---------------------------- MODULE Spec2Model ----------------------------
(***************************************************************************)
(* A model of the SEVIRI native format reader                              *)
(* (satpy/readers/seviri_l1b_native.py): NativeMSGFileHandler,             *)
(* ImageBoundaries and Padder.                                             *)
(*                                                                         *)
(* Conventions of the model:                                               *)
(*  - a file is a record holding the decoded header fields, the decoded    *)
(*    trailer fields and the decoded 10-bit counts of its channels;        *)
(*  - floating-point quantities are exact rationals: a grid step is a      *)
(*    whole number of metres, and an area-extent coordinate is held as     *)
(*    TWICE its value in metres, so that the half-pixel terms of the       *)
(*    extent formula stay integral;                                        *)
(*  - a raster is piecewise constant: a sequence of bands (first row       *)
(*    first), a band being a height h and a sequence of segments, a        *)
(*    segment being a width w and the value v of all its h*w pixels.       *)
(*    Rasters keep the real dimensions (3712, 11136) this way.             *)
(***************************************************************************)
EXTENDS Integers, Sequences, FiniteSets, TLC

VARIABLES file, calib_mode, fill_disk, pc, header, trailer, mda, dask_array,
          last

vars == <<file, calib_mode, fill_disk, pc, header, trailer, mda, dask_array,
          last>>

(***************************************************************************)
(* Bounds of the model.                                                    *)
(***************************************************************************)
\* raw samples of a file are drawn from 0 .. MaxCount
MaxCount == 1

(***************************************************************************)
(* Constants of satpy.readers.seviri_base, imported at lines 57-61.        *)
(***************************************************************************)
VISIR_NUM_COLUMNS == 3712
VISIR_NUM_LINES == 3712
HRV_NUM_COLUMNS == 11136
HRV_NUM_LINES == 11136

CHANNEL_NAMES ==
    <<"VIS006", "VIS008", "IR_016", "IR_039", "WV_062", "WV_073",
      "IR_087", "IR_097", "IR_108", "IR_120", "IR_134", "HRV">>

VIS_CHANNELS == {"HRV", "VIS006", "VIS008", "IR_016"}

\* list(CHANNEL_NAMES.values()).index(channel), 0-based as in the code
ChannelIndex(channel) ==
    (CHOOSE k \in 1..Len(CHANNEL_NAMES) : CHANNEL_NAMES[k] = channel) - 1

\* str.upper() on the calibration-mode strings the model uses
Upper(s) ==
    CASE s = "nominal" -> "NOMINAL"
      [] s = "Nominal" -> "NOMINAL"
      [] s = "gsics"   -> "GSICS"
      [] s = "GSICS"   -> "GSICS"
      [] s = "bogus"   -> "BOGUS"
      [] s = ""        -> ""
      [] OTHER         -> s


(***************************************************************************)
(* The files the reader is opened on.                                      *)
(***************************************************************************)
\* selected rectangles of the secondary header (1-based, inclusive)
Rect(n, e, s, w) == [north |-> n, east |-> e, south |-> s, west |-> w]

FullDiskRect == Rect(3712, 1, 1, 3712)

\* the three northmost segments: the standard rapid-scan coverage
Top3Rect == Rect(3712, 1, 2321, 3712)

\* rectangles short of the full disk, or of the rapid-scan coverage, in one
\* respect
NearRectangles ==
    { Rect(3712, 1, 2, 3712),       \* one line short of the full disk
      Rect(3712, 2, 1, 3712),       \* one column short of the full disk
      Rect(3711, 1, 2320, 3712),    \* 1392 lines, not the northmost ones
      Rect(3712, 1, 2322, 3712),    \* 1391 lines
      Rect(3712, 5, 2321, 3712) }   \* 1392 lines, 3708 columns

\* operator-selected regions
RoiRectangles ==
    { Rect(1000, 501, 901, 600),    \* 100 x 100
      Rect(1000, 501, 901, 602) }   \* 100 x 102 (104 columns in the file)

\* (selected rectangle, reduced-scan flag of the trailer)
Scans ==
    ({FullDiskRect, Top3Rect} \X BOOLEAN)
    \cup ((NearRectangles \cup RoiRectangles) \X {FALSE})
    \cup ({ r \in NearRectangles : r.south > 1 } \X {TRUE})

\* (TypeOfEarthModel, GridOrigin of ReferenceGridVIS_IR, of ReferenceGridHRV)
EarthGrids ==
    { <<2, 2, 2>>, <<1, 2, 2>>, <<0, 2, 2>>, <<2, 0, 2>>, <<1, 2, 3>> }

\* SelectedBandIDs strings: 'X' marks an available channel
BandStrings ==
    { <<"X", "-", "-", "-", "-", "-", "-", "-", "X", "-", "-", "X">>,
      <<"-", "-", "-", "-", "-", "-", "-", "-", "X", "-", "-", "-">> }

CalibModes == {"nominal", "gsics", "bogus"}

\* the column count a well-formed file holds for a selected column count
PaddedColumns(n) == IF (n % 4) > 0 THEN n + (4 - (n % 4)) ELSE n

\* The primary and secondary header of a file with the selected rectangle r:
\* the line counts are those of the rectangle, the HRV counts three times
\* the VISIR ones (the full-width HRV count is stored doubled), and the
\* header's own column counts are either those of the padded or those of
\* the selected width.
MkHeader(r, eg, bands, padded) ==
    LET ncols == r.west - r.east + 1
        nrows == r.north - r.south + 1
        cols  == PaddedColumns(ncols)
    IN  [ NorthLineSelectedRectangle  |-> r.north,
          EastColumnSelectedRectangle |-> r.east,
          SouthLineSelectedRectangle  |-> r.south,
          WestColumnSelectedRectangle |-> r.west,
          NumberColumnsVISIR |-> IF padded THEN cols ELSE ncols,
          NumberLinesVISIR   |-> nrows,
          NumberColumnsHRV   |-> IF ncols < 3712
                                 THEN 3 * (IF padded THEN cols ELSE ncols)
                                 ELSE 11136,
          NumberLinesHRV     |-> 3 * nrows,
          SelectedBandIDs    |-> bands,
          TypeOfEarthModel   |-> eg[1],
          GridOriginVIS_IR   |-> eg[2],
          GridOriginHRV      |-> eg[3],
          \* grid steps in metres (the header's km value times 1000.0)
          ColumnDirGridStepVIS_IR |-> 3000,
          LineDirGridStepVIS_IR   |-> 3001,
          ColumnDirGridStepHRV    |-> 1000,
          LineDirGridStepHRV      |-> 1001,
          CalSlope         |-> [i \in 0..11 |-> 2 + i],
          CalOffset        |-> [i \in 0..11 |-> 0 - (3 + 2 * i)],
          GSICSCalCoeff    |-> [i \in 0..11 |-> 20 + i],
          GSICSOffsetCount |-> [i \in 0..11 |-> 0 - (5 + i)],
          PlannedChanProcessing |-> [i \in 0..11 |-> 1 + (i % 2)] ]

\* The trailer: the reduced-scan flag and the actual HRV coverage, which for
\* a full disk is the lower and the upper window and otherwise the lower
\* window alone, of the height and width of the HRV data of the file.
MkTrailer(r, reduced) ==
    LET ncols == r.west - r.east + 1
        nrows == r.north - r.south + 1
        full  == nrows >= 3712 /\ ncols >= 3712
        hcols == IF ncols < 3712 THEN 3 * PaddedColumns(ncols) ELSE 5568
        south == 3 * r.south - 2
    IN  [ ReducedScan |-> reduced,
          LowerSouthLineActual  |-> south,
          LowerNorthLineActual  |-> IF full THEN 8064
                                            ELSE south + 3 * nrows - 1,
          LowerEastColumnActual |-> IF ncols < 3712 THEN 3 * r.east - 2 ELSE 2064,
          LowerWestColumnActual |-> IF ncols < 3712 THEN 3 * r.east - 3 + hcols
                                                    ELSE 2063 + hcols,
          UpperSouthLineActual  |-> IF full THEN 8065 ELSE 0,
          UpperNorthLineActual  |-> IF full THEN 11136 ELSE 0,
          UpperEastColumnActual |-> IF full THEN 1 ELSE 0,
          UpperWestColumnActual |-> IF full THEN hcols ELSE 0 ]

Files ==
    { [ hdr |-> MkHeader(sc[1], eg, bands, padded),
        trl |-> MkTrailer(sc[1], sc[2]),
        first |-> a ] :
        sc \in Scans, eg \in EarthGrids, bands \in BandStrings,
        padded \in BOOLEAN, a \in 0..MaxCount }

\* the reader before its header is read: self.header = {}, self.mda = {}
NoRecord == [ empty |-> TRUE ]

(***************************************************************************)
(* get_available_channels and NativeMSGFileHandler._read_header            *)
(***************************************************************************)
get_available_channels(hd) ==
    [ name \in { CHANNEL_NAMES[k] : k \in 1..12 } |->
        hd.SelectedBandIDs[ChannelIndex(name) + 1] = "X" ]

\* IsFullDisk with the thresholds themselves taken as short of the full disk
IsFullDisk_OffByOne(north, east, south, west) ==
    LET ncolumns == west - east + 1
        nrows    == north - south + 1
    IN  IF (nrows <= VISIR_NUM_LINES) \/ (ncolumns < VISIR_NUM_COLUMNS)
        THEN FALSE
        ELSE TRUE

\* mda['is_full_disk'], lines 221-230
IsFullDisk(north, east, south, west) ==
    LET ncolumns == west - east + 1
        nrows    == north - south + 1
    IN  IF (nrows < VISIR_NUM_LINES) \/ (ncolumns < VISIR_NUM_COLUMNS)
        THEN FALSE
        ELSE TRUE

\* cols_visir with the padding added whatever the remainder
ColsVisir_AlwaysPads(ncolumns) == ncolumns + (4 - (ncolumns % 4))

\* cols_visir, lines 234-238
ColsVisir(ncolumns) ==
    LET modulo  == ncolumns % 4
        padding == IF modulo > 0 THEN 4 - modulo ELSE 0
    IN  ncolumns + padding

\* cols_hrv, lines 251-255
ColsHrv(ncolumns, cols_hrv_hdr) ==
    IF ncolumns < VISIR_NUM_COLUMNS THEN cols_hrv_hdr ELSE cols_hrv_hdr \div 2

read_header(hd) ==
    LET avail    == get_available_channels(hd)
        north    == hd.NorthLineSelectedRectangle
        east     == hd.EastColumnSelectedRectangle
        south    == hd.SouthLineSelectedRectangle
        west     == hd.WestColumnSelectedRectangle
        ncolumns == west - east + 1
        cols_visir == ColsVisir(ncolumns)
        IsAvail(name) == avail[name]
    IN  [ available_channels |-> avail,
          channel_list   |-> SelectSeq(CHANNEL_NAMES, IsAvail),
          is_full_disk   |-> IsFullDisk(north, east, south, west),
          warned         |-> hd.NumberColumnsVISIR # cols_visir,
          number_of_lines       |-> hd.NumberLinesVISIR,
          number_of_columns     |-> cols_visir,
          hrv_number_of_lines   |-> hd.NumberLinesHRV,
          hrv_number_of_columns |-> ColsHrv(ncolumns, hd.NumberColumnsHRV) ]

(***************************************************************************)
(* NativeMSGFileHandler._get_data_dtype: the record of one line of data.   *)
(* Of a line record the model keeps the length of its packed samples.      *)
(***************************************************************************)
\* int(cols * 1.25): the product is exact in a double, int() truncates
IntOfTimes125(cols) == (5 * cols) \div 4

\* get_lrec(cols), lines 142-157
get_lrec(cols) == [ line_data |-> cols ]

_get_data_dtype ==
    LET visir_rec == get_lrec(IntOfTimes125(mda.number_of_columns))
        number_of_visir_channels ==
            Cardinality({ k \in 1..Len(mda.channel_list) :
                            mda.channel_list[k] # "HRV" })
        hrv_rec == get_lrec(IntOfTimes125(mda.hrv_number_of_columns))
    IN  [ visir |-> [ k \in 1..number_of_visir_channels |-> visir_rec ],
          hrv   |-> IF mda.available_channels["HRV"]
                    THEN [ k \in 1..3 |-> hrv_rec ]
                    ELSE <<>> ]

(***************************************************************************)
(* NativeMSGFileHandler.is_roi                                             *)
(***************************************************************************)
\* is_roi with the north bound of the rapid-scan coverage left unchecked
is_roi_NoNorthBound ==
    LET is_rapid_scan == trailer.ReducedScan
        nlines        == mda.number_of_lines
        ncolumns      == mda.number_of_columns
        is_top3segments == (ncolumns = VISIR_NUM_COLUMNS /\ nlines = 1392)
    IN  ~mda.is_full_disk /\ ~(is_rapid_scan /\ is_top3segments)

is_roi ==
    LET is_rapid_scan == trailer.ReducedScan
        nlines        == mda.number_of_lines
        ncolumns      == mda.number_of_columns
        north_bound   == header.NorthLineSelectedRectangle
        is_top3segments == (ncolumns = VISIR_NUM_COLUMNS /\ nlines = 1392
                            /\ north_bound = VISIR_NUM_LINES)
    IN  ~mda.is_full_disk /\ ~(is_rapid_scan /\ is_top3segments)

(***************************************************************************)
(* ImageBoundaries                                                         *)
(***************************************************************************)
\* the rescaling to the HRV grid without the 1-based offset
_convert_visir_bound_to_hrv_NoOffset(bound) == 3 * bound

_convert_visir_bound_to_hrv(bound) == 3 * bound - 2

\* the loop over the windows without its break
HrvWindows_NoBreak == <<"Lower", "Upper">>

\* the windows ['Lower', 'Upper'] the loop of _get_hrv_actual_img_bounds
\* visits: it breaks after 'Lower' unless the data is full disk
HrvWindows == IF ~mda.is_full_disk THEN <<"Lower">> ELSE <<"Lower", "Upper">>

_get_hrv_actual_img_bounds ==
    LET hrv_bounds == trailer
        S(win) == IF win = "Lower" THEN hrv_bounds.LowerSouthLineActual
                                   ELSE hrv_bounds.UpperSouthLineActual
        N(win) == IF win = "Lower" THEN hrv_bounds.LowerNorthLineActual
                                   ELSE hrv_bounds.UpperNorthLineActual
        E(win) == IF win = "Lower" THEN hrv_bounds.LowerEastColumnActual
                                   ELSE hrv_bounds.UpperEastColumnActual
        W(win) == IF win = "Lower" THEN hrv_bounds.LowerWestColumnActual
                                   ELSE hrv_bounds.UpperWestColumnActual
        wins == HrvWindows
    IN  [ south_bound |-> [k \in 1..Len(wins) |-> S(wins[k])],
          north_bound |-> [k \in 1..Len(wins) |-> N(wins[k])],
          east_bound  |-> [k \in 1..Len(wins) |-> E(wins[k])],
          west_bound  |-> [k \in 1..Len(wins) |-> W(wins[k])] ]

_get_hrv_img_shape == <<mda.hrv_number_of_lines, mda.hrv_number_of_columns>>

_get_visir_img_shape == <<mda.number_of_lines, mda.number_of_columns>>

_get_selected_img_bounds(name) ==
    LET south0 == header.SouthLineSelectedRectangle
        east0  == header.EastColumnSelectedRectangle
        shape  == IF name = "HRV" THEN _get_hrv_img_shape
                                  ELSE _get_visir_img_shape
        south_bound == IF name = "HRV" THEN _convert_visir_bound_to_hrv(south0)
                                       ELSE south0
        east_bound  == IF name = "HRV" THEN _convert_visir_bound_to_hrv(east0)
                                       ELSE east0
        north_bound == south_bound + shape[1] - 1
        west_bound  == east_bound + shape[2] - 1
    IN  [ south_bound |-> <<south_bound>>, north_bound |-> <<north_bound>>,
          east_bound  |-> <<east_bound>>,  west_bound  |-> <<west_bound>> ]

\* TRUE when _check_for_valid_bounds does not raise
_check_for_valid_bounds(img_bounds) ==
    LET len_img_bounds == << Len(img_bounds.south_bound),
                             Len(img_bounds.north_bound),
                             Len(img_bounds.east_bound),
                             Len(img_bounds.west_bound) >>
        same_lengths == Cardinality({ len_img_bounds[k] : k \in 1..4 }) = 1
        no_empty     == \A k \in 1..4 : len_img_bounds[k] > 0
    IN  same_lengths /\ no_empty

\* the bounds get_img_bounds resolves, before they are checked
get_img_bounds(name, roi) ==
    IF name = "HRV" /\ ~roi THEN _get_hrv_actual_img_bounds
                            ELSE _get_selected_img_bounds(name)

\* zip(*img_bounds.values()): the (south, north, east, west) tuples
ZipBounds(img_bounds) ==
    [ k \in 1..Len(img_bounds.south_bound) |->
        [ south |-> img_bounds.south_bound[k],
          north |-> img_bounds.north_bound[k],
          east  |-> img_bounds.east_bound[k],
          west  |-> img_bounds.west_bound[k] ] ]

(***************************************************************************)
(* NativeMSGFileHandler.get_area_extent                                    *)
(***************************************************************************)
\* _calculate_area_extent with the half pixel of the upper-right column
\* added instead of subtracted
_calculate_area_extent_HalfPixel(center_point, north, east, south, west, we_offset, ns_offset, column_step, line_step) ==
    LET ll_c == (2 * center_point - 2 * east + 1 + we_offset) * column_step
        ll_l == (2 * north - 2 * center_point + 1 + ns_offset) * line_step
        ur_c == (2 * center_point - 2 * west + 1 + we_offset) * column_step
        ur_l == (2 * south - 2 * center_point - 1 + ns_offset) * line_step
    IN  <<ll_c, ll_l, ur_c, ur_l>>

\* Twice the extent in metres; we_offset and ns_offset are given doubled.
_calculate_area_extent(center_point, north, east, south, west, we_offset, ns_offset, column_step, line_step) ==
    LET ll_c == (2 * center_point - 2 * east + 1 + we_offset) * column_step
        ll_l == (2 * north - 2 * center_point + 1 + ns_offset) * line_step
        ur_c == (2 * center_point - 2 * west - 1 + we_offset) * column_step
        ur_l == (2 * south - 2 * center_point - 1 + ns_offset) * line_step
    IN  <<ll_c, ll_l, ur_c, ur_l>>

\* EarthModelOffsets with the HRV offsets of earth model 1 left at the
\* offsets of the standard channels
EarthModelOffsets_NoHrvCase(earth_model, name) ==
    IF earth_model = 2 THEN [ns |-> 0, we |-> 0, ok |-> TRUE]
    ELSE IF earth_model = 1 THEN [ns |-> -1, we |-> 1, ok |-> TRUE]
         ELSE [ns |-> 0, we |-> 0, ok |-> FALSE]

\* lines 334-346: (ns_offset, we_offset), doubled; ok is FALSE when the
\* earth model is not recognised (NotImplementedError)
EarthModelOffsets(earth_model, name) ==
    IF earth_model = 2 THEN [ns |-> 0, we |-> 0, ok |-> TRUE]
    ELSE IF earth_model = 1
         THEN IF name = "HRV" THEN [ns |-> -3, we |-> 3, ok |-> TRUE]
                              ELSE [ns |-> -1, we |-> 1, ok |-> TRUE]
         ELSE [ns |-> 0, we |-> 0, ok |-> FALSE]

\* lines 348-361: the reference grid of the channel
ReferenceGrid(name) ==
    IF name = "HRV"
    THEN [ grid_origin  |-> header.GridOriginHRV,
           center_point |-> (HRV_NUM_COLUMNS \div 2) - 2,
           column_step  |-> header.ColumnDirGridStepHRV,
           line_step    |-> header.LineDirGridStepHRV,
           nlines_fulldisk   |-> HRV_NUM_LINES,
           ncolumns_fulldisk |-> HRV_NUM_COLUMNS ]
    ELSE [ grid_origin  |-> header.GridOriginVIS_IR,
           center_point |-> VISIR_NUM_COLUMNS \div 2,
           column_step  |-> header.ColumnDirGridStepVIS_IR,
           line_step    |-> header.LineDirGridStepVIS_IR,
           nlines_fulldisk   |-> VISIR_NUM_LINES,
           ncolumns_fulldisk |-> VISIR_NUM_COLUMNS ]

\* WidenBound widening the lines of full-disk data too
WidenBound_AlwaysLines(b, grid) ==
    IF fill_disk
    THEN [ south |-> 1, north |-> grid.nlines_fulldisk,
           east  |-> 1, west  |-> grid.ncolumns_fulldisk ]
    ELSE b

\* lines 377-380: the boundary the extent is computed for
WidenBound(b, grid) ==
    IF fill_disk
    THEN LET ew == [b EXCEPT !.east = 1, !.west = grid.ncolumns_fulldisk]
         IN  IF ~mda.is_full_disk
             THEN [ew EXCEPT !.south = 1, !.north = grid.nlines_fulldisk]
             ELSE ew
    ELSE b

\* GridOriginSupported taking the north-west origin as supported too
GridOriginSupported_AlsoNW(grid_origin) == grid_origin \in {0, 2}

\* line 366: FALSE when NotImplementedError is raised
GridOriginSupported(grid_origin) == grid_origin = 2

get_area_extent(name) ==
    LET off  == EarthModelOffsets(header.TypeOfEarthModel, name)
        grid == ReferenceGrid(name)
        img_bounds == get_img_bounds(name, is_roi)
        used == [ k \in 1..Len(ZipBounds(img_bounds)) |->
                    WidenBound(ZipBounds(img_bounds)[k], grid) ]
    IN  IF ~off.ok
        THEN [ status |-> "error", exc |-> "NotImplementedError: earth model" ]
        ELSE IF ~GridOriginSupported(grid.grid_origin)
        THEN [ status |-> "error", exc |-> "NotImplementedError: grid origin" ]
        ELSE IF ~_check_for_valid_bounds(img_bounds)
        THEN [ status |-> "error", exc |-> "ValueError" ]
        ELSE [ status |-> "ok", exc |-> "",
               area_extent |->
                 [ k \in 1..Len(used) |->
                     _calculate_area_extent(grid.center_point,
                         used[k].north, used[k].east, used[k].south,
                         used[k].west, off.we, off.ns,
                         grid.column_step, grid.line_step) ],
               nlines   |-> [ k \in 1..Len(used) |->
                                used[k].north - used[k].south + 1 ],
               ncolumns |-> [ k \in 1..Len(used) |->
                                used[k].west - used[k].east + 1 ] ]

(***************************************************************************)
(* Rasters: piecewise-constant arrays of their real dimensions.            *)
(***************************************************************************)
Seg(w, v) == [w |-> w, v |-> v]

Band(h, segs) == [h |-> h, segs |-> segs]

RECURSIVE SumTo(_, _)
\* f[1] + ... + f[n]
SumTo(f, n) == IF n = 0 THEN 0 ELSE f[n] + SumTo(f, n - 1)

Min(a, b) == IF a < b THEN a ELSE b

Max(a, b) == IF a > b THEN a ELSE b

\* array.shape[0] and array.shape[1]
Rows(r) == SumTo([k \in 1..Len(r) |-> r[k].h], Len(r))

BandCols(b) == SumTo([k \in 1..Len(b.segs) |-> b.segs[k].w], Len(b.segs))

Cols(r) == IF r = <<>> THEN 0 ELSE BandCols(r[1])

\* an array of the given shape filled with v
Full(nrows, ncols, v) == << Band(nrows, << Seg(ncols, v) >>) >>

\* array[lo:hi, :] for 0 <= lo <= hi (a slice is clipped to the array)
SliceRows(r, lo, hi) ==
    [ k \in 1..Len(r) |->
        LET start == SumTo([j \in 1..Len(r) |-> r[j].h], k - 1)
            from  == Max(lo, start)
            to    == Min(hi, start + r[k].h)
        IN  Band(Max(0, to - from), r[k].segs) ]

SliceSegs(segs, lo, hi) ==
    [ k \in 1..Len(segs) |->
        LET start == SumTo([j \in 1..Len(segs) |-> segs[j].w], k - 1)
            from  == Max(lo, start)
            to    == Min(hi, start + segs[k].w)
        IN  Seg(Max(0, to - from), segs[k].v) ]

\* array[:, lo:hi]
SliceCols(r, lo, hi) ==
    [ k \in 1..Len(r) |-> Band(r[k].h, SliceSegs(r[k].segs, lo, hi)) ]

\* the array with F applied to every pixel
MapRaster(r, F(_)) ==
    [ k \in 1..Len(r) |->
        Band(r[k].h, [ j \in 1..Len(r[k].segs) |->
                         Seg(r[k].segs[j].w, F(r[k].segs[j].v)) ]) ]

RECURSIVE NormSegs(_)
NormSegs(segs) ==
    IF segs = <<>> THEN <<>>
    ELSE LET rest == NormSegs(Tail(segs))
             hd   == Head(segs)
         IN  IF hd.w = 0 THEN rest
             ELSE IF rest # <<>> /\ rest[1].v = hd.v
                  THEN << Seg(hd.w + rest[1].w, hd.v) >> \o Tail(rest)
                  ELSE << hd >> \o rest

RECURSIVE NormBands(_)
NormBands(r) ==
    IF r = <<>> THEN <<>>
    ELSE LET rest == NormBands(Tail(r))
             hd   == Band(Head(r).h, NormSegs(Head(r).segs))
         IN  IF hd.h = 0 \/ hd.segs = <<>> THEN rest
             ELSE IF rest # <<>> /\ rest[1].segs = hd.segs
                  THEN << Band(hd.h + rest[1].h, hd.segs) >> \o Tail(rest)
                  ELSE << hd >> \o rest

\* Two arrays are equal when they have the same shape and the same pixels:
\* the canonical form (maximal runs of equal rows, of equal pixels) decides.
SameArray(a, b) ==
    /\ Rows(a) = Rows(b)
    /\ Cols(a) = Cols(b)
    /\ NormBands(a) = NormBands(b)

\* the values of the pixels of an array
Values(r) ==
    { r[k].segs[j].v : <<k, j>> \in
        { <<k, j>> \in (1..Len(r)) \X (1..6) :
            j <= Len(r[k].segs) /\ r[k].h > 0 /\ r[k].segs[j].w > 0 } }

(***************************************************************************)
(* The decoded counts of a channel: _get_visir_channel, _get_hrv_channel.  *)
(* The first row is one pixel of the file's first sample then MaxCount,    *)
(* the last row ends with one pixel of MaxCount, all else is 0.            *)
(***************************************************************************)
Decoded(shape) ==
    << Band(1, << Seg(1, file.first), Seg(shape[2] - 1, MaxCount) >>),
       Band(shape[1] - 2, << Seg(shape[2], 0) >>),
       Band(1, << Seg(shape[2] - 1, 0), Seg(1, MaxCount) >>) >>

_get_visir_channel(name) ==
    Decoded(<<mda.number_of_lines, mda.number_of_columns>>)

_get_hrv_channel ==
    Decoded(<<mda.hrv_number_of_lines, mda.hrv_number_of_columns>>)

(***************************************************************************)
(* Pixel values after decoding: a float is a record, NaN being no-data.    *)
(* k is the physical quantity, x its value (for a radiance counts * gain   *)
(* + offset, exactly) and p the parameter of the last conversion.          *)
(***************************************************************************)
NaN == [k |-> "nan", x |-> 0, p |-> 0]

\* MaskZero masking nothing
MaskZero_KeepsZero(v) == [k |-> "counts", x |-> v, p |-> 0]

\* xr.DataArray(data).where(data != 0).astype(np.float32), line 421
MaskZero(v) == IF v # 0 THEN [k |-> "counts", x |-> v, p |-> 0] ELSE NaN

\* SEVIRICalibrationHandler._convert_to_radiance: data * gain + offset
_convert_to_radiance(v, gain, offset) ==
    IF v.k = "nan" THEN NaN
    ELSE [k |-> "radiance", x |-> v.x * gain + offset, p |-> 0]

\* SEVIRICalibrationHandler._vis_calibrate, kept symbolic: the reflectance
\* of a radiance for a solar irradiance
_vis_calibrate(v, solar_irradiance) ==
    IF v.k = "nan" THEN NaN
    ELSE [k |-> "reflectance", x |-> v.x, p |-> solar_irradiance]

\* SEVIRICalibrationHandler._ir_calibrate, kept symbolic: the brightness
\* temperature of a radiance of the channel for a conversion type
_ir_calibrate(v, channel, cal_type) ==
    IF v.k = "nan" THEN NaN
    ELSE [k |-> "brightness_temperature", x |-> v.x, p |-> cal_type]

\* CALIB[platform_id][channel]["F"], symbolic
SolarIrradiance(channel) == 100 + ChannelIndex(channel)

(***************************************************************************)
(* NativeMSGFileHandler.calibrate                                          *)
(***************************************************************************)
\* CalibModeKnown taking every mode as known
CalibModeKnown_Always == TRUE

\* lines 490-492: FALSE when NotImplementedError is raised
CalibModeKnown == ~(Upper(calib_mode) # "GSICS" /\ Upper(calib_mode) # "NOMINAL")

\* CalibCoeffs without the fallback of the visible channels
CalibCoeffs_NoVisFallback(mode, channel) ==
    LET i == ChannelIndex(channel)
    IN  IF Upper(mode) # "GSICS"
        THEN [ gain |-> header.CalSlope[i], offset |-> header.CalOffset[i] ]
        ELSE [ gain   |-> header.GSICSCalCoeff[i],
               offset |-> header.GSICSOffsetCount[i] * header.GSICSCalCoeff[i] ]

\* lines 495-505: the (gain, offset) pair of a channel under a mode
CalibCoeffs(mode, channel) ==
    LET i == ChannelIndex(channel)
    IN  IF Upper(mode) # "GSICS" \/ channel \in VIS_CHANNELS
        THEN [ gain |-> header.CalSlope[i], offset |-> header.CalOffset[i] ]
        ELSE [ gain   |-> header.GSICSCalCoeff[i],
               offset |-> header.GSICSOffsetCount[i] * header.GSICSCalCoeff[i] ]

\* the result of calibrate under a calibration mode: ok is FALSE when it
\* raises
CalibrateAs(mode, known, data, channel, calibration) ==
    LET i  == ChannelIndex(channel)
        co == CalibCoeffs(mode, channel)
        Rad(v)  == _convert_to_radiance(v, co.gain, co.offset)
        Refl(v) == _vis_calibrate(Rad(v), SolarIrradiance(channel))
        Bt(v)   == _ir_calibrate(Rad(v), channel,
                                 header.PlannedChanProcessing[i])
    IN  IF calibration = "counts"
        THEN [ ok |-> TRUE, exc |-> "", data |-> data ]
        ELSE IF ~known
        THEN [ ok |-> FALSE, exc |-> "NotImplementedError: calibration mode",
               data |-> <<>> ]
        ELSE IF calibration = "reflectance"
        THEN [ ok |-> TRUE, exc |-> "", data |-> MapRaster(data, Refl) ]
        ELSE IF calibration = "brightness_temperature"
        THEN [ ok |-> TRUE, exc |-> "", data |-> MapRaster(data, Bt) ]
        ELSE [ ok |-> TRUE, exc |-> "", data |-> MapRaster(data, Rad) ]

calibrate(data, channel, calibration) ==
    CalibrateAs(calib_mode, CalibModeKnown, data, channel, calibration)

(***************************************************************************)
(* seviri_base.pad_data_horizontally / pad_data_vertically and Padder      *)
(***************************************************************************)
\* The data padded with no-data columns to the width of final_size, the
\* data at columns [east_bound - 1 : west_bound]; ok is FALSE when the data
\* cannot be placed so.
pad_data_horizontally(data, final_size, east_bound, west_bound) ==
    LET nlines == final_size[1]
        pe == east_bound - 1
        pw == final_size[2] - west_bound
    IN  IF pe < 0 \/ pw < 0 \/ nlines # Rows(data)
           \/ west_bound - east_bound # Cols(data) - 1
        THEN [ ok |-> FALSE, data |-> <<>> ]
        ELSE [ ok |-> TRUE,
               data |-> [ k \in 1..Len(data) |->
                          Band(data[k].h, << Seg(pe, NaN) >> \o data[k].segs
                                          \o << Seg(pw, NaN) >>) ] ]

\* The data padded with no-data rows to the height of final_size, the data
\* at rows [south_bound - 1 : north_bound].
pad_data_vertically(data, final_size, south_bound, north_bound) ==
    LET ncols == final_size[2]
        ps == south_bound - 1
        pn == final_size[1] - north_bound
    IN  IF ps < 0 \/ pn < 0 \/ ncols # Cols(data)
           \/ north_bound - south_bound # Rows(data) - 1
        THEN [ ok |-> FALSE, data |-> <<>> ]
        ELSE [ ok |-> TRUE,
               data |-> Full(ps, ncols, NaN) \o data \o Full(pn, ncols, NaN) ]

\* Padder.__init__, lines 619-622
FinalShape(name) ==
    IF name = "HRV" THEN <<HRV_NUM_LINES, HRV_NUM_COLUMNS>>
                    ELSE <<VISIR_NUM_LINES, VISIR_NUM_COLUMNS>>

\* _extract_data_to_pad slicing from the south bound itself
_extract_data_to_pad_FromSouth(dataset, south_bound, north_bound, is_full_disk) ==
    IF is_full_disk THEN SliceRows(dataset, south_bound, north_bound)
                    ELSE dataset

\* lines 643-654
_extract_data_to_pad(dataset, south_bound, north_bound, is_full_disk) ==
    IF is_full_disk THEN SliceRows(dataset, south_bound - 1, north_bound)
                    ELSE dataset

RECURSIVE VStack(_)
\* da.vstack of a list of arrays
VStack(data_list) ==
    IF data_list = <<>> THEN <<>>
    ELSE Head(data_list) \o VStack(Tail(data_list))

pad_data(dataset, name, img_bounds, is_full_disk) ==
    LET bounds == ZipBounds(img_bounds)
        final_shape == FinalShape(name)
        Padded(b) ==
            pad_data_horizontally(
                _extract_data_to_pad(dataset, b.south, b.north, is_full_disk),
                <<b.north - b.south + 1, final_shape[2]>>, b.east, b.west)
        data_list == [ k \in 1..Len(bounds) |-> Padded(bounds[k]) ]
        stacked == VStack([ k \in 1..Len(bounds) |-> data_list[k].data ])
        lastb == bounds[Len(bounds)]
    IN  IF \E k \in 1..Len(bounds) : ~data_list[k].ok
        THEN [ ok |-> FALSE, data |-> <<>> ]
        ELSE IF ~is_full_disk
        THEN pad_data_vertically(stacked, final_shape, lastb.south, lastb.north)
        ELSE [ ok |-> TRUE, data |-> stacked ]

(***************************************************************************)
(* NativeMSGFileHandler.get_dataset                                        *)
(***************************************************************************)
\* the channel check with every name taken as available
InChannelList_Always(name) == TRUE

\* line 414: dataset_id['name'] in self.mda['channel_list']
InChannelList(name) ==
    \E k \in 1..Len(mda.channel_list) : mda.channel_list[k] = name

\* line 437: whether the dataset is padded
PadsDataset(name) == fill_disk /\ ~(name # "HRV" /\ mda.is_full_disk)

\* lines 416-421: the masked counts of the channel
MaskedCounts(name) ==
    MapRaster(IF name # "HRV" THEN _get_visir_channel(name)
                              ELSE _get_hrv_channel, MaskZero)

\* lines 421-426: the calibrated dataset, before any padding
CalibratedDataset(name, calibration) ==
    calibrate(MaskedCounts(name), name, calibration)

get_dataset(name, calibration) ==
    LET dataset == CalibratedDataset(name, calibration)
        bounds  == get_img_bounds(name, is_roi)
        padded  == pad_data(dataset.data, name, bounds, mda.is_full_disk)
    IN  IF ~InChannelList(name)
        THEN [ status |-> "error", exc |-> "KeyError", data |-> <<>> ]
        ELSE IF ~dataset.ok
        THEN [ status |-> "error", exc |-> dataset.exc, data |-> <<>> ]
        ELSE IF PadsDataset(name)
        THEN IF ~_check_for_valid_bounds(bounds)
             THEN [ status |-> "error", exc |-> "ValueError", data |-> <<>> ]
             ELSE IF ~padded.ok
             THEN [ status |-> "error", exc |-> "padding", data |-> <<>> ]
             ELSE [ status |-> "ok", exc |-> "", data |-> padded.data ]
        ELSE [ status |-> "ok", exc |-> "", data |-> dataset.data ]

\* the steps a call of get_dataset goes through, in the order of lines
\* 414-441, up to the one that raises
get_dataset_steps(name, calibration) ==
    LET dataset == CalibratedDataset(name, calibration)
    IN  IF ~InChannelList(name) THEN <<>>
        ELSE <<"decode", "mask", "calibrate">>
             \o (IF dataset.ok /\ PadsDataset(name) THEN <<"pad">> ELSE <<>>)

(***************************************************************************)
(* The reader as a state machine.                                          *)
(***************************************************************************)
DatasetNames == {"VIS006", "IR_108", "HRV"}

\* the calibrations the host requests of a channel
Calibrations(name) ==
    IF name \in VIS_CHANNELS THEN {"counts", "radiance", "reflectance"}
    ELSE {"counts", "radiance", "brightness_temperature"}

\* __init__, lines 88-100
Init ==
    /\ file \in Files
    /\ calib_mode \in CalibModes
    /\ fill_disk \in BOOLEAN
    /\ pc = "init"
    /\ header = NoRecord
    /\ mda = NoRecord
    /\ trailer = NoRecord
    /\ dask_array = NoRecord
    /\ last = [op |-> "none"]

\* __init__, line 104: self._read_header()
ReadHeader ==
    /\ pc = "init"
    /\ header' = file.hdr
    /\ mda' = read_header(file.hdr)
    /\ pc' = "header_read"
    /\ UNCHANGED <<file, dask_array, calib_mode, fill_disk, trailer, last>>

\* __init__, lines 105-107: the memory map of the data records, typed by
\* _get_data_dtype, then self._read_trailer()
ReadTrailer ==
    /\ pc = "header_read"
    /\ dask_array' = [ dtype |-> _get_data_dtype ]
    /\ trailer' = file.trl
    /\ pc' = "ready"
    /\ UNCHANGED <<file, calib_mode, fill_disk, header, mda, last>>

IsRoi ==
    /\ pc = "ready"
    /\ last' = [op |-> "is_roi", result |-> is_roi]
    /\ UNCHANGED <<file, dask_array, calib_mode, fill_disk, pc, header, trailer, mda>>

GetAreaExtent(name) ==
    /\ pc = "ready"
    /\ last' = [op |-> "get_area_extent", name |-> name,
                result |-> get_area_extent(name)]
    /\ UNCHANGED <<file, dask_array, calib_mode, fill_disk, pc, header, trailer, mda>>

\* get_dataset; calibrated records the dataset calibrate returned at line
\* 426, when the call got there
GetDataset(name, calibration) ==
    /\ pc = "ready"
    /\ last' = [op |-> "get_dataset", name |-> name,
                calibration |-> calibration,
                calibrated |->
                    IF InChannelList(name)
                    THEN CalibratedDataset(name, calibration)
                    ELSE [ ok |-> FALSE, exc |-> "not called", data |-> <<>> ],
                steps |-> get_dataset_steps(name, calibration),
                result |-> get_dataset(name, calibration)]
    /\ UNCHANGED <<file, dask_array, calib_mode, fill_disk, pc, header, trailer, mda>>

\* image_boundaries.get_img_bounds(dataset_id, self.is_roi()), as lines 374
\* and 439 call it: the bounds, or the ValueError of the validity check
GetImgBounds(name) ==
    /\ pc = "ready"
    /\ LET img_bounds == get_img_bounds(name, is_roi)
       IN  last' = [op |-> "get_img_bounds", name |-> name,
                    result |->
                      IF _check_for_valid_bounds(img_bounds)
                      THEN [ status |-> "ok", img_bounds |-> img_bounds ]
                      ELSE [ status |-> "error", exc |-> "ValueError" ]]
    /\ UNCHANGED <<file, dask_array, calib_mode, fill_disk, pc, header, trailer,
                   mda>>

\* a boundary list of one window
OneWindow(south, north, east, west) ==
    [ south_bound |-> <<south>>, north_bound |-> <<north>>,
      east_bound  |-> <<east>>,  west_bound  |-> <<west>> ]

\* Padder(dataset_id, img_bounds, is_full_disk) with the shape of a dataset
\* that fits the boundaries
PadderCases ==
    { [ name |-> "VIS006", is_full_disk |-> TRUE, shape |-> <<3712, 3712>>,
        img_bounds |-> OneWindow(1, 3712, 1, 3712) ],
      [ name |-> "VIS006", is_full_disk |-> FALSE, shape |-> <<3712, 3712>>,
        img_bounds |-> OneWindow(1, 3712, 1, 3712) ],
      [ name |-> "HRV", is_full_disk |-> TRUE, shape |-> <<11136, 11136>>,
        img_bounds |-> OneWindow(1, 11136, 1, 11136) ],
      [ name |-> "HRV", is_full_disk |-> FALSE, shape |-> <<11136, 11136>>,
        img_bounds |-> OneWindow(1, 11136, 1, 11136) ],
      [ name |-> "VIS006", is_full_disk |-> FALSE, shape |-> <<1392, 3712>>,
        img_bounds |-> OneWindow(2321, 3712, 1, 3712) ],
      [ name |-> "VIS006", is_full_disk |-> FALSE, shape |-> <<100, 100>>,
        img_bounds |-> OneWindow(901, 1000, 501, 600) ],
      [ name |-> "HRV", is_full_disk |-> TRUE, shape |-> <<11136, 5568>>,
        img_bounds |-> [ south_bound |-> <<1, 8065>>,
                         north_bound |-> <<8064, 11136>>,
                         east_bound  |-> <<2064, 1>>,
                         west_bound  |-> <<7631, 5568>> ] ] }

\* Padder(...).pad_data(dataset) on a dataset of masked counts
PadData(c) ==
    /\ pc = "ready"
    /\ LET dataset == MapRaster(Decoded(c.shape), MaskZero)
       IN  last' = [op |-> "pad_data", name |-> c.name,
                    img_bounds |-> c.img_bounds,
                    is_full_disk |-> c.is_full_disk,
                    dataset |-> dataset,
                    result |-> pad_data(dataset, c.name, c.img_bounds,
                                        c.is_full_disk)]
    /\ UNCHANGED <<file, dask_array, calib_mode, fill_disk, pc, header, trailer, mda>>

Next ==
    \/ ReadHeader
    \/ ReadTrailer
    \/ IsRoi
    \/ \E name \in DatasetNames : GetAreaExtent(name)
    \/ \E name \in DatasetNames : GetImgBounds(name)
    \/ \E name \in DatasetNames :
         \E calibration \in Calibrations(name) : GetDataset(name, calibration)
    \/ \E c \in PadderCases : PadData(c)

Spec == Init /\ [][Next]_vars

(***************************************************************************)
(* Properties.                                                             *)
(***************************************************************************)
Opened == pc # "init"

SelectedRows == header.NorthLineSelectedRectangle
                  - header.SouthLineSelectedRectangle + 1

SelectedColumns == header.WestColumnSelectedRectangle
                     - header.EastColumnSelectedRectangle + 1

\* C1: once the header is read, mda['is_full_disk'] is true if and only if
\* the selected rectangle has at least 3712 lines and at least 3712 columns.
C1_FullDiskIffAtThresholds ==
    Opened =>
        (mda.is_full_disk <=> (SelectedRows >= 3712 /\ SelectedColumns >= 3712))

\* a rectangle exactly at both thresholds has been read as a full disk
C1_Witness ==
    /\ Opened
    /\ SelectedRows = 3712
    /\ SelectedColumns = 3712
    /\ mda.is_full_disk

\* the four fields of the standard rapid-scan coverage that hold
RapidScanFields ==
    { f \in {"reduced", "columns", "lines", "north"} :
        \/ f = "reduced" /\ trailer.ReducedScan
        \/ f = "columns" /\ mda.number_of_columns = 3712
        \/ f = "lines"   /\ mda.number_of_lines = 1392
        \/ f = "north"   /\ header.NorthLineSelectedRectangle = 3712 }

\* C2: is_roi() is true exactly when the data is not full disk and not
\* (reduced scan, 3712 columns, 1392 lines, north line 3712); with all four
\* fields so the data is not ROI, and data short of the full disk with a
\* single one of the four changed is ROI.
C2_IsRoiExactly ==
    last.op = "is_roi" =>
        /\ last.result <=>
             (~mda.is_full_disk /\
              ~(trailer.ReducedScan /\ mda.number_of_columns = 3712
                /\ mda.number_of_lines = 1392
                /\ header.NorthLineSelectedRectangle = 3712))
        /\ Cardinality(RapidScanFields) = 4 => ~last.result
        /\ (Cardinality(RapidScanFields) = 3 /\ ~mda.is_full_disk)
             => last.result

\* is_roi has answered "not ROI" for the standard rapid-scan coverage
C2_Witness ==
    /\ last.op = "is_roi"
    /\ Cardinality(RapidScanFields) = 4
    /\ ~last.result

\* The extent of a boundary b for a channel as the specification gives it,
\* doubled: ((center - east + 0.5 + we_offset) * column_step,
\* (north - center + 0.5 + ns_offset) * line_step,
\* (center - west - 0.5 + we_offset) * column_step,
\* (south - center - 0.5 + ns_offset) * line_step)
ExpectedExtent(name, b) ==
    LET hrv    == name = "HRV"
        model1 == header.TypeOfEarthModel = 1
        ns2    == IF model1 THEN (IF hrv THEN -3 ELSE -1) ELSE 0
        we2    == IF model1 THEN (IF hrv THEN 3 ELSE 1) ELSE 0
        center == IF hrv THEN 5566 ELSE 1856
        cstep  == IF hrv THEN header.ColumnDirGridStepHRV
                         ELSE header.ColumnDirGridStepVIS_IR
        lstep  == IF hrv THEN header.LineDirGridStepHRV
                         ELSE header.LineDirGridStepVIS_IR
    IN  << (2 * center - 2 * b.east + 1 + we2) * cstep,
           (2 * b.north - 2 * center + 1 + ns2) * lstep,
           (2 * center - 2 * b.west - 1 + we2) * cstep,
           (2 * b.south - 2 * center - 1 + ns2) * lstep >>

\* the boundaries get_img_bounds resolves for a channel
Resolved(name) == ZipBounds(get_img_bounds(name, is_roi))

\* the full-disk grid of a channel: (lines, columns)
FullDiskGrid(name) == IF name = "HRV" THEN <<11136, 11136>> ELSE <<3712, 3712>>

\* the boundary widened to the full-disk columns and, for data short of
\* the full disk, to the full-disk lines
Widened(name, b) ==
    [ east  |-> 1,
      west  |-> FullDiskGrid(name)[2],
      south |-> IF mda.is_full_disk THEN b.south ELSE 1,
      north |-> IF mda.is_full_disk THEN b.north ELSE FullDiskGrid(name)[1] ]

ExtentReturned == last.op = "get_area_extent" /\ last.result.status = "ok"

\* C3 as stated: the extent returned for every resolved boundary is the
\* extent formula applied to that boundary
C3_ExtentOfResolvedBoundary ==
    ExtentReturned =>
        /\ Len(last.result.area_extent) = Len(Resolved(last.name))
        /\ \A k \in 1..Len(Resolved(last.name)) :
             last.result.area_extent[k]
               = ExpectedExtent(last.name, Resolved(last.name)[k])

\* C3 (amended): the extent returned for every resolved boundary is the
\* extent formula, with offsets (0, 0) for earth model 2 and (-0.5, +0.5),
\* or (-1.5, +1.5) for HRV, for earth model 1, applied to that boundary when
\* fill_disk is not set and to the widened boundary when it is; for earth
\* model 2 and the standard boundary (1, 3712, 1, 3712) the pixel-unit
\* corners are (1855.5, 1856.5, -1856.5, -1855.5).
C3_ExtentOfUsedBoundary ==
    ExtentReturned =>
        /\ Len(last.result.area_extent) = Len(Resolved(last.name))
        /\ \A k \in 1..Len(Resolved(last.name)) :
             LET b == Resolved(last.name)[k]
                 u == IF fill_disk THEN Widened(last.name, b) ELSE b
             IN  /\ last.result.area_extent[k] = ExpectedExtent(last.name, u)
                 /\ ( /\ header.TypeOfEarthModel = 2
                      /\ last.name # "HRV"
                      /\ u = [south |-> 1, north |-> 3712,
                              east |-> 1, west |-> 3712] )
                    => last.result.area_extent[k]
                         = << 3711 * header.ColumnDirGridStepVIS_IR,
                              3713 * header.LineDirGridStepVIS_IR,
                              -3713 * header.ColumnDirGridStepVIS_IR,
                              -3711 * header.LineDirGridStepVIS_IR >>

\* the reference full-disk extent was returned for a standard channel of a
\* full disk under earth model 2
C3_Witness ==
    /\ ExtentReturned
    /\ last.name # "HRV"
    /\ header.TypeOfEarthModel = 2
    /\ Resolved(last.name)[1] = [south |-> 1, north |-> 3712,
                                 east |-> 1, west |-> 3712]
    /\ last.result.area_extent[1]
         = << 3711 * 3000, 3713 * 3001, -3713 * 3000, -3711 * 3001 >>

\* the grid origin of the reference grid of the requested channel
RequestedGridOrigin ==
    IF last.name = "HRV" THEN header.GridOriginHRV
                         ELSE header.GridOriginVIS_IR

\* C4: get_area_extent returns an extent only when the earth-model code is
\* 1 or 2 and the grid origin of the channel's reference grid is 2; for any
\* other code it ends in an error and gives no extent.
C4_ExtentOnlyForKnownModelAndOrigin ==
    last.op = "get_area_extent" =>
        LET supported == header.TypeOfEarthModel \in {1, 2}
                         /\ RequestedGridOrigin = 2
        IN  /\ last.result.status = "ok" => supported
            /\ ~supported =>
                 /\ last.result.status = "error"
                 /\ "area_extent" \notin DOMAIN last.result

\* get_area_extent was refused for an unknown earth model, or for a grid
\* origin other than the south-east one
C4_Witness ==
    /\ last.op = "get_area_extent"
    /\ last.result.status = "error"
    /\ header.TypeOfEarthModel \in {1, 2}
    /\ RequestedGridOrigin # 2

\* C5: with fill_disk set and data short of the full disk or the HRV
\* channel, every resolved boundary is widened to columns 1 .. full-disk
\* columns and, only for data short of the full disk, to lines 1 .. full-disk
\* lines before the extent formula is applied, and nlines/ncolumns are those
\* of the widened boundary; with fill_disk not set the resolved boundaries
\* are used unchanged.
C5_FillDiskWidensBoundary ==
    ExtentReturned =>
        \A k \in 1..Len(Resolved(last.name)) :
            LET b == Resolved(last.name)[k]
                w == Widened(last.name, b)
            IN  /\ (fill_disk /\ (~mda.is_full_disk \/ last.name = "HRV")) =>
                     /\ last.result.area_extent[k]
                          = ExpectedExtent(last.name, w)
                     /\ last.result.nlines[k] = w.north - w.south + 1
                     /\ last.result.ncolumns[k] = FullDiskGrid(last.name)[2]
                     /\ ~mda.is_full_disk =>
                          last.result.nlines[k] = FullDiskGrid(last.name)[1]
                /\ ~fill_disk =>
                     /\ last.result.area_extent[k]
                          = ExpectedExtent(last.name, b)
                     /\ last.result.nlines[k] = b.north - b.south + 1
                     /\ last.result.ncolumns[k] = b.west - b.east + 1

\* an extent was returned with fill_disk set for the two HRV windows of a
\* full disk, whose lines stay as resolved
C5_Witness ==
    /\ ExtentReturned
    /\ fill_disk
    /\ last.name = "HRV"
    /\ mda.is_full_disk
    /\ Len(last.result.nlines) = 2
    /\ last.result.nlines[1] = 8064

\* get_dataset was asked for an available channel and its calibration did
\* not raise
DatasetCalibrated ==
    /\ last.op = "get_dataset"
    /\ InChannelList(last.name)
    /\ last.calibrated.ok

\* the dataset of the request before any padding
Unpadded == last.calibrated.data

\* the first row of window k in a raster of stacked windows
WindowOffset(bounds, k) ==
    SumTo([j \in 1..Len(bounds) |-> bounds[j].north - bounds[j].south + 1],
          k - 1)

\* The padded raster holds the data of every window at columns
\* [east_bound - 1 : west_bound] and no-data at the other columns; the
\* windows of a full disk are stacked, the window of other data lies at rows
\* [south_bound - 1 : north_bound] with no-data at the other rows.
DataPlaced(padded, data, bounds, full_disk, final) ==
    \A k \in 1..Len(bounds) :
        LET b    == bounds[k]
            from == IF full_disk THEN WindowOffset(bounds, k) ELSE b.south - 1
            to   == from + (b.north - b.south + 1)
            rows == SliceRows(padded, from, to)
            src  == IF full_disk THEN SliceRows(data, b.south - 1, b.north)
                                 ELSE data
        IN  /\ SameArray(SliceCols(rows, b.east - 1, b.west), src)
            /\ Values(SliceCols(rows, 0, b.east - 1)) \subseteq {NaN}
            /\ Values(SliceCols(rows, b.west, final[2])) \subseteq {NaN}
            /\ ~full_disk =>
                 /\ Values(SliceRows(padded, 0, from)) \subseteq {NaN}
                 /\ Values(SliceRows(padded, to, final[1])) \subseteq {NaN}

\* C6: with fill_disk set get_dataset returns, for every available channel
\* and every acquisition mode, a raster of the full-disk shape of the
\* channel's grid with the data at columns [east_bound - 1 : west_bound] and,
\* for data short of the full disk, rows [south_bound - 1 : north_bound];
\* with fill_disk not set it returns the unpadded raster.
C6_FillDiskGivesFullDiskRaster ==
    DatasetCalibrated =>
        /\ last.result.status = "ok"
        /\ fill_disk =>
             /\ Rows(last.result.data) = FullDiskGrid(last.name)[1]
             /\ Cols(last.result.data) = FullDiskGrid(last.name)[2]
             /\ DataPlaced(last.result.data, Unpadded, Resolved(last.name),
                           mda.is_full_disk, FullDiskGrid(last.name))
        /\ ~fill_disk => last.result.data = Unpadded

\* the boundary lists of last.img_bounds span the whole grid of the channel
SpansWholeGrid ==
    ZipBounds(last.img_bounds)
      = << [ south |-> 1, north |-> FullDiskGrid(last.name)[1],
             east  |-> 1, west  |-> FullDiskGrid(last.name)[2] ] >>

\* C7: Padder.pad_data returns a raster equal in shape and in every pixel to
\* its input when the boundary spans the whole grid, and get_dataset with
\* fill_disk set returns for a standard channel of a full disk the raster it
\* returns with fill_disk not set.
C7_PaddingFullDiskIsIdentity ==
    /\ (last.op = "pad_data" /\ SpansWholeGrid) =>
         /\ last.result.ok
         /\ Rows(last.result.data) = Rows(last.dataset)
         /\ Cols(last.result.data) = Cols(last.dataset)
         /\ SameArray(last.result.data, last.dataset)
    /\ (DatasetCalibrated /\ fill_disk /\ mda.is_full_disk
        /\ last.name # "HRV") =>
         /\ last.result.status = "ok"
         /\ SameArray(last.result.data, Unpadded)

\* pad_data has padded a dataset whose boundary spans the whole grid, not
\* taking it for full-disk data
C7_Witness ==
    /\ last.op = "pad_data"
    /\ SpansWholeGrid
    /\ ~last.is_full_disk
    /\ last.result.ok
    /\ Rows(last.result.data) = 3712

\* the decoded counts of the requested channel
RawCounts(name) ==
    IF name # "HRV" THEN _get_visir_channel(name) ELSE _get_hrv_channel

\* The raster get_dataset returned, brought back to the rows and columns of
\* the decoded counts: as returned when it was not padded, else the
\* windows cut out of the padded raster and stacked.
Unplaced ==
    IF ~PadsDataset(last.name) THEN last.result.data
    ELSE LET bounds == Resolved(last.name)
             Cut(k) ==
                 LET b    == bounds[k]
                     from == IF mda.is_full_disk
                             THEN WindowOffset(bounds, k) ELSE b.south - 1
                     to   == from + (b.north - b.south + 1)
                 IN  SliceCols(SliceRows(last.result.data, from, to),
                               b.east - 1, b.west)
         IN  VStack([ k \in 1..Len(bounds) |-> Cut(k) ])

\* the pixels of raster out at the place of segment j of band k of raw
RegionOf(out, raw, k, j) ==
    LET row == SumTo([n \in 1..Len(raw) |-> raw[n].h], k - 1)
        col == SumTo([n \in 1..Len(raw[k].segs) |-> raw[k].segs[n].w], j - 1)
    IN  SliceCols(SliceRows(out, row, row + raw[k].h),
                  col, col + raw[k].segs[j].w)

DatasetReturned == last.op = "get_dataset" /\ last.result.status = "ok"

\* C8: every pixel whose raw sample is 0 is no-data in the raster
\* get_dataset returns, whatever the channel, the calibration and the
\* calibration mode, being masked before calibrate is called; and the mask
\* turns no pixel with a non-zero sample into no-data: a counts request
\* returns that sample.
C8_ZeroSamplesAreNoData ==
    DatasetReturned =>
        LET raw == RawCounts(last.name)
        IN  /\ Rows(Unplaced) = Rows(raw)
            /\ Cols(Unplaced) = Cols(raw)
            /\ \A k \in 1..Len(raw) : \A j \in 1..Len(raw[k].segs) :
                 LET v == raw[k].segs[j].v
                 IN  /\ v = 0 =>
                          /\ Values(RegionOf(last.calibrated.data, raw, k, j))
                               = {NaN}
                          /\ Values(RegionOf(Unplaced, raw, k, j)) = {NaN}
                     /\ (v # 0 /\ last.calibration = "counts") =>
                          Values(RegionOf(Unplaced, raw, k, j))
                            = { [k |-> "counts", x |-> v, p |-> 0] }

\* a brightness temperature was returned in GSICS mode, padded to the full
\* disk, for a file whose first sample is 0
C8_Witness ==
    /\ DatasetReturned
    /\ file.first = 0
    /\ last.calibration = "brightness_temperature"
    /\ Upper(calib_mode) = "GSICS"
    /\ PadsDataset(last.name)
    /\ NaN \in Values(RegionOf(Unplaced, RawCounts(last.name), 1, 1))

\* the value of a pixel of count v of channel name calibrated with the
\* coefficients (gain, offset)
Converted(v, name, calibration, gain, offset) ==
    LET x == v * gain + offset
        i == ChannelIndex(name)
    IN  CASE calibration = "radiance" -> [k |-> "radiance", x |-> x, p |-> 0]
          [] calibration = "reflectance" ->
               [k |-> "reflectance", x |-> x, p |-> SolarIrradiance(name)]
          [] calibration = "brightness_temperature" ->
               [k |-> "brightness_temperature", x |-> x,
                p |-> header.PlannedChanProcessing[i]]

\* the raster calibrate gives for the requested channel with the
\* coefficients (gain, offset)
CalibratedWith(gain, offset) ==
    LET Conv(v) == IF v = 0 THEN NaN
                   ELSE Converted(v, last.name, last.calibration, gain, offset)
    IN  MapRaster(RawCounts(last.name), Conv)

\* calibrate was called for a radiance, a reflectance or a brightness
\* temperature under a known calibration mode
Calibrated ==
    /\ last.op = "get_dataset"
    /\ InChannelList(last.name)
    /\ last.calibration # "counts"
    /\ Upper(calib_mode) \in {"GSICS", "NOMINAL"}

\* C9: calibrate uses the nominal pair (CalSlope[i], CalOffset[i]) unless
\* the mode is GSICS and the channel is not a visible one, when it uses
\* (GSICSCalCoeff[i], GSICSOffsetCount[i] * GSICSCalCoeff[i]); so that for a
\* visible channel GSICS mode gives, without an error, the result of
\* nominal mode.
C9_CoefficientsByModeAndChannel ==
    Calibrated =>
        LET i == ChannelIndex(last.name)
            visible == last.name \in {"HRV", "VIS006", "VIS008", "IR_016"}
            nominal == CalibratedWith(header.CalSlope[i], header.CalOffset[i])
            gsics   == CalibratedWith(header.GSICSCalCoeff[i],
                         header.GSICSOffsetCount[i] * header.GSICSCalCoeff[i])
        IN  /\ last.calibrated.ok
            /\ last.calibrated.data
                 = IF Upper(calib_mode) = "GSICS" /\ ~visible THEN gsics
                                                             ELSE nominal
            /\ visible => last.calibrated.data = nominal

\* a visible channel was calibrated in GSICS mode
C9_Witness ==
    /\ Calibrated
    /\ Upper(calib_mode) = "GSICS"
    /\ last.name = "VIS006"
    /\ last.calibration = "reflectance"
    /\ last.calibrated.ok

\* the calibration mode of the reader is neither nominal nor GSICS
UnknownCalibMode == Upper(calib_mode) \notin {"GSICS", "NOMINAL"}

\* C10 as stated: under a calibration mode that is neither 'nominal' nor
\* 'gsics' get_dataset ends in an error and returns no raster, for every
\* available channel and every requested calibration
C10_UnknownModeAlwaysFails ==
    (last.op = "get_dataset" /\ InChannelList(last.name) /\ UnknownCalibMode)
        => /\ last.result.status = "error"
           /\ last.result.data = <<>>

\* C10 (amended): under a calibration mode that is neither 'nominal' nor
\* 'gsics', compared without regard to case, get_dataset ends in an error
\* and returns no raster for every available channel and every requested
\* calibration other than counts; a counts request is calibrated without
\* the mode being looked at.
C10_UnknownModeFailsUnlessCounts ==
    /\ (last.op = "get_dataset" /\ InChannelList(last.name)
        /\ UnknownCalibMode) =>
         IF last.calibration # "counts"
         THEN /\ last.result.status = "error"
              /\ last.result.exc = "NotImplementedError: calibration mode"
              /\ last.result.data = <<>>
         ELSE /\ last.calibrated.ok
              /\ last.result.exc # "NotImplementedError: calibration mode"
    /\ (last.op = "get_dataset" /\ ~UnknownCalibMode) =>
         last.result.exc # "NotImplementedError: calibration mode"

\* a radiance was refused under the mode 'bogus'
C10_Witness ==
    /\ last.op = "get_dataset"
    /\ InChannelList(last.name)
    /\ calib_mode = "bogus"
    /\ last.calibration = "radiance"
    /\ last.result.status = "error"

(***************************************************************************)
(* C11: get_dataset for a channel that the header's selected-band string   *)
(* does not flag aborts with a KeyError before any pixel is decoded,       *)
(* calibrated or padded and returns no raster; for a flagged channel the   *)
(* channel check never raises.                                             *)
(***************************************************************************)
FlaggedInHeader(name) ==
    \E k \in 1..Len(CHANNEL_NAMES) :
        CHANNEL_NAMES[k] = name /\ header.SelectedBandIDs[k] = "X"

C11_UnavailableChannelAborts ==
    (pc = "ready" /\ last.op = "get_dataset") =>
        IF FlaggedInHeader(last.name)
        THEN /\ last.result.exc # "KeyError"
             /\ last.steps # <<>>
        ELSE /\ last.result.status = "error"
             /\ last.result.exc = "KeyError"
             /\ last.result.data = <<>>
             /\ last.steps = <<>>

C11_Witness ==
    /\ pc = "ready" /\ last.op = "get_dataset"
    /\ ~FlaggedInHeader(last.name)
    /\ FlaggedInHeader("IR_108")
    /\ last.result.exc = "KeyError"

(***************************************************************************)
(* C12: after open, mda['number_of_columns'] is the smallest multiple of 4 *)
(* that is >= west - east + 1 of the selected rectangle, whatever the      *)
(* header's NumberColumnsVISIR says; a disagreement of the two is logged   *)
(* as a warning and the open goes on.                                      *)
(***************************************************************************)
C12_ColumnsSmallestMultipleOfFour ==
    Opened =>
        /\ mda.number_of_columns % 4 = 0
        /\ mda.number_of_columns >= SelectedColumns
        /\ mda.number_of_columns < SelectedColumns + 4
        /\ (mda.warned <=> (header.NumberColumnsVISIR # mda.number_of_columns))
        /\ pc \in {"header_read", "ready"}

C12_Witness ==
    /\ pc = "ready"
    /\ SelectedColumns % 4 # 0
    /\ header.NumberColumnsVISIR # mda.number_of_columns
    /\ mda.warned
    /\ mda.number_of_columns = SelectedColumns + 4 - (SelectedColumns % 4)

(***************************************************************************)
(* C13: the line record built by _get_data_dtype holds one sub-record per  *)
(* available channel other than HRV, each of ceil(number_of_columns *      *)
(* 1.25) bytes of packed samples, and, if and only if HRV is available,    *)
(* three more sub-records each of ceil(hrv_number_of_columns * 1.25)       *)
(* bytes, for every column count the metadata holds.                       *)
(***************************************************************************)
\* ceil(cols * 1.25)
CeilOfTimes125(cols) == (5 * cols + 3) \div 4

AvailableVisir ==
    { k \in 1..Len(CHANNEL_NAMES) :
        CHANNEL_NAMES[k] # "HRV" /\ header.SelectedBandIDs[k] = "X" }

C13_LineRecordHoldsCeilBytes ==
    pc = "ready" =>
        LET dtype == dask_array.dtype
        IN  /\ Len(dtype.visir) = Cardinality(AvailableVisir)
            /\ \A k \in 1..Len(dtype.visir) :
                   dtype.visir[k].line_data
                     = CeilOfTimes125(mda.number_of_columns)
            /\ Len(dtype.hrv) = (IF FlaggedInHeader("HRV") THEN 3 ELSE 0)
            /\ \A k \in 1..Len(dtype.hrv) :
                   dtype.hrv[k].line_data
                     = CeilOfTimes125(mda.hrv_number_of_columns)

(***************************************************************************)
(* C14: get_img_bounds returns four boundary lists of equal, non-zero      *)
(* length, which is 2 if and only if the channel is HRV and the data is    *)
(* full disk: for HRV that is not ROI the bounds are the trailer's actual  *)
(* coverage, the 'Lower' window always and the 'Upper' window only for a   *)
(* full disk; in every other case there is one tuple; data short of the    *)
(* full disk always has exactly one tuple.                                 *)
(***************************************************************************)
ImgBoundsReturned == pc = "ready" /\ last.op = "get_img_bounds"

\* the data is a region of interest: short of the full disk and not the
\* standard rapid-scan coverage
DataIsRoi ==
    /\ (SelectedRows < 3712 \/ SelectedColumns < 3712)
    /\ Cardinality(RapidScanFields) # 4

BoundLengths(b) ==
    { Len(b.south_bound), Len(b.north_bound),
      Len(b.east_bound), Len(b.west_bound) }

\* window k of the lists b is the tuple (south, north, east, west)
IsWindow(b, k, south, north, east, west) ==
    /\ b.south_bound[k] = south /\ b.north_bound[k] = north
    /\ b.east_bound[k] = east   /\ b.west_bound[k] = west

C14_BoundaryListLengths ==
    ImgBoundsReturned =>
        /\ last.result.status = "ok"
        /\ LET b == last.result.img_bounds
               n == Len(b.south_bound)
           IN  /\ BoundLengths(b) = {n}
               /\ n \in {1, 2}
               /\ ((n = 2) <=> (last.name = "HRV" /\ mda.is_full_disk))
               /\ (~mda.is_full_disk => n = 1)
               /\ (last.name = "HRV" /\ ~DataIsRoi) =>
                     /\ IsWindow(b, 1, trailer.LowerSouthLineActual,
                                 trailer.LowerNorthLineActual,
                                 trailer.LowerEastColumnActual,
                                 trailer.LowerWestColumnActual)
                     /\ mda.is_full_disk =>
                          IsWindow(b, 2, trailer.UpperSouthLineActual,
                                   trailer.UpperNorthLineActual,
                                   trailer.UpperEastColumnActual,
                                   trailer.UpperWestColumnActual)

\* HRV of a full disk: the lower and the upper window of the trailer
C14_Witness ==
    /\ ImgBoundsReturned
    /\ last.name = "HRV" /\ ~DataIsRoi /\ mda.is_full_disk
    /\ last.result.status = "ok"
    /\ Len(last.result.img_bounds.south_bound) = 2
    /\ last.result.img_bounds.south_bound[2] = trailer.UpperSouthLineActual
    /\ last.result.img_bounds.north_bound[1] = trailer.LowerNorthLineActual

(***************************************************************************)
(* C15: for a standard channel, or for HRV when the data is ROI, the one   *)
(* boundary tuple has south and east from the header's selected rectangle  *)
(* (for HRV each rescaled as 3*v - 2), north = south + nlines - 1 and      *)
(* west = east + ncolumns - 1, (nlines, ncolumns) being the metadata       *)
(* dimensions of the channel's grid.                                       *)
(***************************************************************************)
SelectedCase == last.name # "HRV" \/ DataIsRoi

C15_SelectedBoundsFromHeader ==
    (ImgBoundsReturned /\ SelectedCase) =>
        /\ last.result.status = "ok"
        /\ LET b == last.result.img_bounds
               hrv == last.name = "HRV"
               south == IF hrv THEN 3 * header.SouthLineSelectedRectangle - 2
                               ELSE header.SouthLineSelectedRectangle
               east  == IF hrv THEN 3 * header.EastColumnSelectedRectangle - 2
                               ELSE header.EastColumnSelectedRectangle
               nlines   == IF hrv THEN mda.hrv_number_of_lines
                                  ELSE mda.number_of_lines
               ncolumns == IF hrv THEN mda.hrv_number_of_columns
                                  ELSE mda.number_of_columns
           IN  /\ BoundLengths(b) = {1}
               /\ IsWindow(b, 1, south, south + nlines - 1,
                                 east, east + ncolumns - 1)

\* HRV of a region of interest away from the grid's origin
C15_Witness ==
    /\ ImgBoundsReturned
    /\ last.name = "HRV" /\ DataIsRoi
    /\ header.EastColumnSelectedRectangle = 501
    /\ last.result.status = "ok"
    /\ last.result.img_bounds.east_bound = <<1501>>
    /\ last.result.img_bounds.south_bound = <<2701>>

=============================================================================
